---- MODULE Spec2Model ----
(***************************************************************************)
(* Model of the quality-review pipeline of en_agent:                       *)
(*   review_quality.py            review_cloze_files, review_reading_files, *)
(*                                main                                      *)
(*   summarize_quality_report.py  summarize_report and its helpers          *)
(* Python floats are modelled as exact rationals <<n, d>> (d > 0, reduced). *)
(* Values whose Python type is not fixed (JSON documents, Optional fields)  *)
(* are tagged records [t |-> <type>, v |-> <value>].                        *)
(***************************************************************************)
EXTENDS Integers, Sequences, FiniteSets, TLC

VARIABLES
    llm,            \* main: args.llm, the Judge Adapter is supplied
    cloze_files,    \* main: number of paths iter_json_files found in --cloze-dir
    reading_files,  \* main: number of paths iter_json_files found in --reading-dir
    pc,             \* where the run is
    fi,             \* review_*_files: index of the path the outer loop is at
    items,          \* review_*_files: the list _load_models_from_file returned
    idx,            \* review_*_files: number of items of `items` already enumerated
    per_item,       \* review_*_files: local per_item
    totals,         \* review_*_files: local totals
    scores,         \* review_*_files: local scores
    cloze_items,    \* main: first component of review_cloze_files' result
    cloze_totals,   \* main: second component of review_cloze_files' result
    reading_items,  \* main: first component of review_reading_files' result
    reading_totals, \* main: second component of review_reading_files' result
    loaded,         \* history: per group, the file contents in the order loaded
    failed,         \* history: <<group, file, index>> of the judge call that raised
    exc,            \* the exception that unwound the run, "none" if none
    report,         \* the Report document handed to dump_report_json
    summary,        \* what summarize_report returned for `report`
    exit_code,      \* the status the command ended with, NotExited while it runs
    fusion_issues,  \* overall_score: the Issue list it is called with
    fusion_llm_score, \* overall_score: the judge score it is called with
    fusion_score,   \* overall_score: what it returned
    candidate,      \* model.py: the data a model is constructed from
    verdict,        \* model.py: how the construction ended
    cloze_dir,      \* batch main: the model name of each path of --cloze-dir, sorted
    reading_dir,    \* batch main: the model name of each path of --reading-dir, sorted
    models,         \* batch main: _all_models(cloze_by_model, reading_by_model)
    mi,             \* batch main: number of models whose loop iteration is done
    reports,        \* batch main: the Reports handed to dump_report_json, in order
    judge_calls,    \* history: <<group, file, index>> of each judge call made
    max_retries,    \* invoke: the argument max_retries
    pydantic_obj,   \* invoke: a pydantic_obj is passed
    total_calls,    \* LLMService: self.total_calls
    failed_calls,   \* LLMService: self.failed_calls
    service_retry_count, \* LLMService: self.retry_count
    retry_count,    \* invoke: local retry_count
    attempts,       \* history: passes of invoke's `while True` in this call
    requests,       \* history: requests this call sent to the chat model
    at_entry        \* history: the counters as this call of invoke was entered

vars == <<llm, cloze_files, reading_files, pc, fi, items, idx, per_item, totals,
          scores, cloze_items, cloze_totals, reading_items, reading_totals,
          loaded, failed, exc, report, summary, exit_code, fusion_issues,
          fusion_llm_score, fusion_score, candidate, verdict, cloze_dir,
          reading_dir, models, mi, reports, judge_calls, max_retries,
          pydantic_obj, total_calls, failed_calls, service_retry_count,
          retry_count, attempts, requests, at_entry>>

\* the locals of a review run
review_vars == <<llm, cloze_files, reading_files, fi, items, idx, per_item, totals,
                 scores, cloze_items, cloze_totals, reading_items, reading_totals,
                 loaded, failed, exc, judge_calls>>

fusion_vars == <<fusion_issues, fusion_llm_score, fusion_score>>

validation_vars == <<candidate, verdict>>

batch_vars == <<cloze_dir, reading_dir, models, mi, reports>>

invoke_vars == <<max_retries, pydantic_obj, total_calls, failed_calls,
                 service_retry_count, retry_count, attempts, requests, at_entry>>

----
\* Bounds of the model.
MaxFiles == 2       \* paths per input directory
MaxItems == 3       \* items loaded in one run, over all files
MaxEntries == 2     \* entries of a per_blank / per_question list
MaxPredicted == 2   \* entries of predicted_answers
MaxMismatch == 3    \* entries of answer_mismatch_indices / answer_mismatch_ids
MaxReportItems == 2 \* items of a Report handed to the Summarizer directly
MaxBatchItems == 2  \* items loaded in one batch run, over all models and files

----
\* Exact rationals for Python floats.
RECURSIVE GCD(_, _)
GCD(a, b) == IF b = 0 THEN a ELSE GCD(b, a % b)

Abs(x) == IF x < 0 THEN -x ELSE x

Rat(n, d) == LET g == GCD(Abs(n), d) IN <<n \div g, d \div g>>

RatInt(n) == <<n, 1>>

RatAdd(a, b) == Rat(a[1] * b[2] + b[1] * a[2], a[2] * b[2])

RatDivInt(a, k) == Rat(a[1], a[2] * k)

RatLess(a, b) == a[1] * b[2] < b[1] * a[2]

RECURSIVE RatSum(_)
RatSum(xs) == IF xs = <<>> THEN RatInt(0) ELSE RatAdd(Head(xs), RatSum(Tail(xs)))

----
\* Tagged values: Python objects read from or written to JSON.
JNull == [t |-> "null"]
JAbsent == [t |-> "absent"]     \* a key a dict does not have
JBool(b) == [t |-> "bool", v |-> b]
JNum(r) == [t |-> "num", v |-> r]
JStr(s) == [t |-> "str", v |-> s]
JFmt(parts) == [t |-> "fstr", v |-> parts]  \* a str built by formatting: never empty
JList(s) == [t |-> "list", v |-> s]
JDict(f) == [t |-> "dict", v |-> f]

IsDict(x) == x.t = "dict"
IsList(x) == x.t = "list"

\* dict.get(k): None when the key is missing
Get(d, k) == IF k \in DOMAIN d.v /\ d.v[k].t # "absent" THEN d.v[k] ELSE JNull

Keys(d) == {k \in DOMAIN d.v : d.v[k].t # "absent"}

\* dict.get(k, default)
GetOr(d, k, default) == IF k \in Keys(d) THEN d.v[k] ELSE default

EmptyDict == JDict([nokey |-> JAbsent])

\* len() of a list or a dict
PyLen(x) == IF IsList(x) THEN Len(x.v) ELSE Cardinality(Keys(x))

\* Python truthiness
Truthy(x) ==
    CASE x.t = "null" -> FALSE
      [] x.t = "absent" -> FALSE
      [] x.t = "bool" -> x.v
      [] x.t = "num" -> x.v[1] # 0
      [] x.t = "str" -> x.v # ""
      [] x.t = "fstr" -> TRUE
      [] x.t = "list" -> Len(x.v) > 0
      [] x.t = "dict" -> Keys(x) # {}

----
\* The Item Model (src/src/model.py): declared fields of the two classes.
ClozeTestFields == {"title", "content", "options", "answers"}
ReadingTaskFields == {"title", "content", "questions"}

\* getattr on a pydantic model: only declared fields are attributes
HasAttr(fields, name) == name \in fields

\* A validated item, abstracted to what the pipeline reads from it: its title
\* and the defects the Rule Checker finds in it.
ItemKinds ==
    { [title |-> "clean",  fatal |-> 0, warning |-> 0, info |-> 0],
      [title |-> "flawed", fatal |-> 1, warning |-> 2, info |-> 3] }

RECURSIVE Repeat(_, _)
Repeat(x, n) == IF n = 0 THEN <<>> ELSE <<x>> \o Repeat(x, n - 1)

CountOf(issues, sev) == Cardinality({i \in 1..Len(issues) : issues[i] = sev})

\* rule_check_cloze / rule_check_reading: (issues, stats); stats tally issues
rule_check(item) ==
    LET issues == Repeat("Fatal", item.fatal) \o Repeat("Warning", item.warning)
                    \o Repeat("Info", item.info)
    IN [issues |-> issues,
        stats |-> [fatal_count |-> CountOf(issues, "Fatal"),
                   warning_count |-> CountOf(issues, "Warning"),
                   info_count |-> CountOf(issues, "Info")]]

\* Score Fusion
Baseline == 100
FatalPenalty == 40
WarningPenalty == 10

Max(a, b) == IF a > b THEN a ELSE b

NoClamp(r) == r

Clamp(r) == IF RatLess(r, RatInt(0)) THEN RatInt(0)
            ELSE IF RatLess(RatInt(Baseline), r) THEN RatInt(Baseline) ELSE r

rule_score_abs(issues) ==
    Abs(Baseline - FatalPenalty * CountOf(issues, "Fatal")
                 - WarningPenalty * CountOf(issues, "Warning"))

rule_score(issues) ==
    Max(0, Baseline - FatalPenalty * CountOf(issues, "Fatal")
                    - WarningPenalty * CountOf(issues, "Warning"))

overall_score(issues, llm_score) ==
    IF llm_score.t = "num"
    THEN Clamp(RatDivInt(RatAdd(RatInt(rule_score(issues)), llm_score.v), 2))
    ELSE RatInt(rule_score(issues))

----
\* The Judge Adapter.
Entry(m) == JDict([matches_provided |-> m])

JudgeDict(type, overall, aspects, breakdown, predicted, mismatch) ==
    JDict([overall_score |-> overall,
           overall_scores |-> aspects,
           per_blank |-> IF type = "cloze" THEN breakdown ELSE JAbsent,
           per_question |-> IF type = "reading" THEN breakdown ELSE JAbsent,
           predicted_answers |-> predicted,
           answer_mismatch_indices |-> IF type = "cloze" THEN mismatch ELSE JAbsent,
           answer_mismatch_ids |-> IF type = "reading" THEN mismatch ELSE JAbsent])

Answers(type, n) ==
    IF type = "cloze" THEN JList(Repeat(JStr("A"), n))
    ELSE JDict([q1 |-> IF n >= 1 THEN JStr("A") ELSE JAbsent,
                q2 |-> IF n >= 2 THEN JStr("B") ELSE JAbsent,
                q3 |-> IF n >= 3 THEN JStr("C") ELSE JAbsent,
                q4 |-> IF n >= 4 THEN JStr("D") ELSE JAbsent])

\* What llm_judge_cloze / llm_judge_reading hand back (after model_dump) when
\* they return; any field may be unpopulated.
JudgeResults(type) ==
    { JudgeDict(type, JNum(RatInt(90)), JNull,
                JList(<<Entry(JBool(TRUE)), Entry(JBool(FALSE))>>), JNull, JNull),
      JudgeDict(type, JNull, JNull, JNull, Answers(type, 2), JList(<<JNum(RatInt(1))>>)) }

\* The outcomes of one judge call: it raises, or returns a JudgeResult.
JudgeOutcomes(type) ==
    {[raised |-> TRUE, result |-> JNull]}
        \cup {[raised |-> FALSE, result |-> r] : r \in JudgeResults(type)}

----
\* review_cloze_files / review_reading_files
ZeroTotals == [count |-> 0, fatal |-> 0, warning |-> 0, info |-> 0, avg_score |-> RatInt(0)]

\* the dict appended to per_item
ScoredItem(type, path, i, item, score, checked, llm_judge) ==
    [type |-> type,
     path |-> <<path, i>>,
     source_file |-> path,
     index_in_file |-> i,
     name |-> item.title,
     score |-> score,
     rule_issues |-> checked.issues,
     rule_stats |-> checked.stats,
     llm_judge |-> llm_judge]

AppendItemFront(list, entry) == <<entry>> \o list

AppendItem(list, entry) == Append(list, entry)

AccumulateSwapped(t, stats) ==
    [t EXCEPT !.count = @ + 1,
              !.fatal = @ + stats.fatal_count,
              !.warning = @ + stats.fatal_count,
              !.info = @ + stats.info_count]

Accumulate(t, stats) ==
    [t EXCEPT !.count = @ + 1,
              !.fatal = @ + stats.fatal_count,
              !.warning = @ + stats.warning_count,
              !.info = @ + stats.info_count]

SharedTotals(previous) == previous

\* totals = {"count": 0, ...}: each call of review_*_files starts a dict of its
\* own, whatever an earlier call left in its accumulator
OwnTotals(previous) == ZeroTotals

AvgScore(xs) == IF Len(xs) > 0 THEN RatDivInt(RatSum(xs), Len(xs)) ELSE RatInt(0)

RECURSIVE TotalLen(_)
TotalLen(fs) == IF fs = <<>> THEN 0 ELSE Len(Head(fs)) + TotalLen(Tail(fs))

\* items of the Reports the batch run has written
RECURSIVE ItemsReported(_)
ItemsReported(rs) ==
    IF rs = <<>> THEN 0 ELSE PyLen(Get(Head(rs), "items")) + ItemsReported(Tail(rs))

ItemsLoaded == TotalLen(loaded.cloze) + TotalLen(loaded.reading) + ItemsReported(reports)

\* the number of items the run may still load
ItemBudget == (IF models = <<>> THEN MaxItems ELSE MaxBatchItems) - ItemsLoaded

\* what _load_models_from_file can return for a file of validated items
FileContents(budget) == UNION {[1..n -> ItemKinds] : n \in 0..budget}

\* no judge call is made (llm is None)
NoCall == [raised |-> FALSE, result |-> JNull]

CallsAlways(type) == JudgeOutcomes(type)

\* if llm is not None: llm_judge = llm_judge_cloze(item, llm).model_dump()
Calls(type) == IF llm THEN JudgeOutcomes(type) ELSE {NoCall}

\* llm_judge.get("overall_score") if llm_judge else None
JudgeScore(llm_judge) ==
    IF Truthy(llm_judge) THEN Get(llm_judge, "overall_score") ELSE JNull

\* the status of a command that has not ended
NotExited == -1

\* an uncaught exception ends the interpreter with status 1
Raise(name) ==
    /\ pc' = "raised"
    /\ exc' = name
    /\ exit_code' = 1

\* the parts of the program a run does not enter
NoFusion == fusion_issues = <<>> /\ fusion_llm_score = JNull /\ fusion_score = JNull

NoValidation == candidate = JNull /\ verdict = "none"

\* the LLMService before any call of invoke
NoInvoke ==
    /\ max_retries = 0
    /\ pydantic_obj = FALSE
    /\ total_calls = 0
    /\ failed_calls = 0
    /\ service_retry_count = 0
    /\ retry_count = 0
    /\ attempts = 0
    /\ requests = 0
    /\ at_entry = [total_calls |-> 0, failed_calls |-> 0]

NoBatch ==
    /\ cloze_dir = <<>>
    /\ reading_dir = <<>>
    /\ models = <<>>
    /\ mi = 0
    /\ reports = <<>>

Init ==
    /\ llm \in BOOLEAN
    /\ cloze_files \in 0..MaxFiles
    /\ reading_files \in 0..MaxFiles
    /\ pc = "cloze"
    /\ fi = 0
    /\ items = <<>>
    /\ idx = 0
    /\ per_item = <<>>
    /\ totals = ZeroTotals
    /\ scores = <<>>
    /\ cloze_items = <<>>
    /\ cloze_totals = ZeroTotals
    /\ reading_items = <<>>
    /\ reading_totals = ZeroTotals
    /\ loaded = [cloze |-> <<>>, reading |-> <<>>]
    /\ failed = <<>>
    /\ judge_calls = <<>>
    /\ exc = "none"
    /\ report = JNull
    /\ summary = JNull
    /\ exit_code = NotExited
    /\ NoFusion
    /\ NoValidation
    /\ NoBatch
    /\ NoInvoke

\* for path in files: items = _load_models_from_file(path, ClozeTest)
review_cloze_load ==
    /\ pc = "cloze"
    /\ idx = Len(items)
    /\ fi < cloze_files
    /\ \E content \in FileContents(ItemBudget) :
          /\ items' = content
          /\ loaded' = [loaded EXCEPT !.cloze = Append(@, content)]
    /\ fi' = fi + 1
    /\ idx' = 0
    /\ UNCHANGED <<llm, cloze_files, reading_files, pc, per_item, totals, scores,
                   cloze_items, cloze_totals, reading_items, reading_totals,
                   failed, exc, judge_calls, report, summary>>
    /\ UNCHANGED <<exit_code, fusion_vars, validation_vars, invoke_vars, batch_vars>>

\* one iteration of `for idx, item in enumerate(items)` in review_cloze_files
review_cloze_item ==
    /\ pc = "cloze"
    /\ idx < Len(items)
    /\ \E call \in Calls("cloze") :
          /\ judge_calls' = IF call = NoCall THEN judge_calls
                            ELSE Append(judge_calls, <<"cloze", fi, idx>>)
          /\ LET item == items[idx + 1]
                 checked == rule_check(item)
                 llm_judge == call.result
                 score == overall_score(checked.issues, JudgeScore(llm_judge))
             IN IF call.raised
                THEN /\ Raise("JudgeError")
                     /\ failed' = <<"cloze", fi, idx>>
                     /\ UNCHANGED <<idx, per_item, totals, scores>>
                ELSE IF ~HasAttr(ClozeTestFields, "id")
                THEN /\ Raise("AttributeError")
                     /\ scores' = Append(scores, score)
                     /\ UNCHANGED <<idx, per_item, totals, failed>>
                ELSE /\ scores' = Append(scores, score)
                     /\ per_item' = AppendItem(per_item,
                           ScoredItem("cloze", fi, idx, item, score, checked, llm_judge))
                     /\ totals' = Accumulate(totals, checked.stats)
                     /\ idx' = idx + 1
                     /\ UNCHANGED <<pc, exc, failed, exit_code>>
    /\ UNCHANGED <<llm, cloze_files, reading_files, fi, items, cloze_items,
                   cloze_totals, reading_items, reading_totals, loaded, report,
                   summary>>
    /\ UNCHANGED <<fusion_vars, validation_vars, invoke_vars, batch_vars>>

\* review_cloze_files returns; main calls review_reading_files
review_cloze_return ==
    /\ pc = "cloze"
    /\ idx = Len(items)
    /\ fi = cloze_files
    /\ cloze_items' = per_item
    /\ cloze_totals' = [totals EXCEPT !.avg_score = AvgScore(scores)]
    /\ pc' = "reading"
    /\ fi' = 0
    /\ items' = <<>>
    /\ idx' = 0
    /\ per_item' = <<>>
    /\ totals' = OwnTotals(totals)
    /\ scores' = <<>>
    /\ UNCHANGED <<llm, cloze_files, reading_files, reading_items, reading_totals,
                   loaded, failed, exc, judge_calls, report, summary>>
    /\ UNCHANGED <<exit_code, fusion_vars, validation_vars, invoke_vars, batch_vars>>

\* for path in files: tasks = _load_models_from_file(path, ReadingTask)
review_reading_load ==
    /\ pc = "reading"
    /\ idx = Len(items)
    /\ fi < reading_files
    /\ \E content \in FileContents(ItemBudget) :
          /\ items' = content
          /\ loaded' = [loaded EXCEPT !.reading = Append(@, content)]
    /\ fi' = fi + 1
    /\ idx' = 0
    /\ UNCHANGED <<llm, cloze_files, reading_files, pc, per_item, totals, scores,
                   cloze_items, cloze_totals, reading_items, reading_totals,
                   failed, exc, judge_calls, report, summary>>
    /\ UNCHANGED <<exit_code, fusion_vars, validation_vars, invoke_vars, batch_vars>>

\* one iteration of `for idx, task in enumerate(tasks)` in review_reading_files
review_reading_item ==
    /\ pc = "reading"
    /\ idx < Len(items)
    /\ \E call \in Calls("reading") :
          /\ judge_calls' = IF call = NoCall THEN judge_calls
                            ELSE Append(judge_calls, <<"reading", fi, idx>>)
          /\ LET task == items[idx + 1]
                 checked == rule_check(task)
                 llm_judge == call.result
                 score == overall_score(checked.issues, JudgeScore(llm_judge))
             IN IF call.raised
                THEN /\ Raise("JudgeError")
                     /\ failed' = <<"reading", fi, idx>>
                     /\ UNCHANGED <<idx, per_item, totals, scores>>
                ELSE IF ~HasAttr(ReadingTaskFields, "title")
                THEN /\ Raise("AttributeError")
                     /\ scores' = Append(scores, score)
                     /\ UNCHANGED <<idx, per_item, totals, failed>>
                ELSE /\ scores' = Append(scores, score)
                     /\ per_item' = AppendItem(per_item,
                           ScoredItem("reading", fi, idx, task, score, checked, llm_judge))
                     /\ totals' = Accumulate(totals, checked.stats)
                     /\ idx' = idx + 1
                     /\ UNCHANGED <<pc, exc, failed, exit_code>>
    /\ UNCHANGED <<llm, cloze_files, reading_files, fi, items, cloze_items,
                   cloze_totals, reading_items, reading_totals, loaded, report,
                   summary>>
    /\ UNCHANGED <<fusion_vars, validation_vars, invoke_vars, batch_vars>>

\* review_reading_files returns to main
review_reading_return ==
    /\ pc = "reading"
    /\ idx = Len(items)
    /\ fi = reading_files
    /\ reading_items' = per_item
    /\ reading_totals' = [totals EXCEPT !.avg_score = AvgScore(scores)]
    /\ pc' = "assemble"
    /\ UNCHANGED <<llm, cloze_files, reading_files, fi, items, idx, per_item,
                   totals, scores, cloze_items, cloze_totals, loaded, failed, exc,
                   judge_calls, report, summary>>
    /\ UNCHANGED <<exit_code, fusion_vars, validation_vars, invoke_vars, batch_vars>>

----
\* summarize_quality_report.py

\* a function that raised instead of returning
Raised(name) == [t |-> "raise", v |-> name]

\* x or y
Or(x, y) == IF Truthy(x) THEN x ELSE y

\* str(x): a str is itself, anything else is formatted
PyStr(x) == IF x.t \in {"str", "fstr"} THEN x ELSE JFmt(<<"str", x>>)

\* float() of the strings the model uses
StrFloat == [s \in {"60"} |-> RatInt(60)]

_safe_float(x) ==
    CASE x.t = "num" -> x
      [] x.t = "bool" -> JNum(RatInt(IF x.v THEN 1 ELSE 0))
      [] x.t = "str" -> IF x.v \in DOMAIN StrFloat THEN JNum(StrFloat[x.v]) ELSE JNull
      [] OTHER -> JNull

\* the (accuracy, correct, total) a call of _compute_ai_accuracy returns
Accuracy(acc, correct, total) == [t |-> "ok", acc |-> acc, correct |-> correct, total |-> total]

ZeroAccuracy == Accuracy(JNum(RatInt(0)), JNum(RatInt(0)), JNum(RatInt(0)))

NoAccuracy == Accuracy(JNull, JNull, JNull)

IsTruthy(m) == Truthy(m)

\* `m is True`
IsTrue(m) == m.t = "bool" /\ m.v

FromBreakdown(entries) ==
    IF \E i \in 1..Len(entries) : ~IsDict(entries[i])
    THEN Raised("AttributeError")
    ELSE LET total == Len(entries)
             correct == Cardinality({i \in 1..total :
                                       IsTrue(Get(entries[i], "matches_provided"))})
         IN Accuracy(JNum(Rat(correct, total)), JNum(RatInt(correct)), JNum(RatInt(total)))

FromPredictedMismatchRatio(predicted, mismatch) ==
    LET total == PyLen(predicted)
    IN IF IsList(mismatch)
       THEN LET correct == Len(mismatch.v)
            IN Accuracy(JNum(Rat(correct, total)), JNum(RatInt(correct)),
                        JNum(RatInt(total)))
       ELSE Accuracy(JNull, JNull, JNum(RatInt(total)))

\* the predicted_answers / mismatch branch, entered with a non-empty predicted
FromPredicted(predicted, mismatch) ==
    LET total == PyLen(predicted)
    IN IF IsList(mismatch)
       THEN LET correct == total - Len(mismatch.v)
            IN Accuracy(JNum(Rat(correct, total)), JNum(RatInt(correct)),
                        JNum(RatInt(total)))
       ELSE Accuracy(JNull, JNull, JNum(RatInt(total)))

_compute_ai_accuracy(item) ==
    LET llm_judge == Get(item, "llm_judge")
        type == Get(item, "type")
        IsType(name) == type.t = "str" /\ type.v = name
    IN IF ~IsDict(llm_judge) THEN NoAccuracy
       ELSE IF IsType("cloze")
       THEN LET per_blank == Get(llm_judge, "per_blank")
                predicted == Get(llm_judge, "predicted_answers")
                mismatch == Get(llm_judge, "answer_mismatch_indices")
            IN IF IsList(per_blank) /\ Truthy(per_blank) THEN FromBreakdown(per_blank.v)
               ELSE IF IsList(predicted) /\ Truthy(predicted)
               THEN FromPredicted(predicted, mismatch)
               ELSE NoAccuracy
       ELSE IF IsType("reading")
       THEN LET per_question == Get(llm_judge, "per_question")
                predicted == Get(llm_judge, "predicted_answers")
                mismatch == Get(llm_judge, "answer_mismatch_ids")
            IN IF IsList(per_question) /\ Truthy(per_question)
               THEN FromBreakdown(per_question.v)
               ELSE IF IsDict(predicted) /\ Truthy(predicted)
               THEN FromPredicted(predicted, mismatch)
               ELSE NoAccuracy
       ELSE NoAccuracy

_extract_aspect_scores(item) ==
    LET llm_judge == Get(item, "llm_judge")
    IN IF ~IsDict(llm_judge) THEN JNull
       ELSE LET scores_ == Get(llm_judge, "overall_scores")
            IN IF ~IsDict(scores_) \/ ~Truthy(scores_) THEN JNull
               ELSE LET out == JDict([k \in DOMAIN scores_.v |->
                                        IF _safe_float(Get(scores_, k)).t = "num"
                                        THEN _safe_float(Get(scores_, k)) ELSE JAbsent])
                    IN IF Truthy(out) THEN out ELSE JNull

report_items_unchecked(rep) == Get(rep, "items")

\* items = report.get("items") if isinstance(report.get("items"), list) else []
report_items(rep) == IF IsList(Get(rep, "items")) THEN Get(rep, "items") ELSE JList(<<>>)

\* what `for it in items` enumerates: the elements of a list; the keys of a dict
\* and the characters of a str are str objects, which the loop skips
Iterable(x) == x.t \in {"list", "dict", "str", "fstr"}

Elements(x) == IF IsList(x) THEN x.v ELSE <<>>

\* the loop's two `continue` filters
Kept(it) ==
    /\ IsDict(it)
    /\ PyStr(GetOr(it, "type", JStr(""))).t = "str"
    /\ PyStr(GetOr(it, "type", JStr(""))).v \in {"cloze", "reading"}

\* one ItemSummary
ItemSummary(it) ==
    LET t == Get(it, "type").v
        sf == _safe_float(Get(it, "score"))
        acc == _compute_ai_accuracy(it)
    IN [type |-> t,
        source |-> PyStr(Or(Or(Get(it, "source_file"), Get(it, "path")), JStr(""))),
        name |-> IF t = "cloze" THEN JFmt(<<"id=", Get(it, "id")>>)
                 ELSE PyStr(Or(Get(it, "title"), JStr(""))),
        score |-> IF Truthy(sf) THEN sf.v ELSE RatInt(0),
        aspect_scores |-> _extract_aspect_scores(it),
        ai_accuracy |-> acc.acc,
        ai_correct |-> acc.correct,
        ai_total |-> acc.total]

_avg_unguarded(xs) == <<RatSum(xs)[1], RatSum(xs)[2] * Len(xs)>>

_avg(xs) == IF Len(xs) > 0 THEN RatDivInt(RatSum(xs), Len(xs)) ELSE RatInt(0)

Field(xs, f) == [i \in 1..Len(xs) |-> xs[i][f]]

_avg_aspects_over_all(items_) ==
    LET with == SelectSeq(items_, LAMBDA it : Truthy(it.aspect_scores))
        bucket == UNION {Keys(with[i].aspect_scores) : i \in 1..Len(with)}
        vals(k) == LET has == SelectSeq(with, LAMBDA it : k \in Keys(it.aspect_scores))
                   IN [i \in 1..Len(has) |-> has[i].aspect_scores.v[k].v]
    IN IF bucket = {} THEN JNull
       ELSE JDict([k \in bucket |-> JNum(RatDivInt(RatSum(vals(k)), Len(items_)))])

_avg_aspects(items_) ==
    LET with == SelectSeq(items_, LAMBDA it : Truthy(it.aspect_scores))
        bucket == UNION {Keys(with[i].aspect_scores) : i \in 1..Len(with)}
        vals(k) == LET has == SelectSeq(with, LAMBDA it : k \in Keys(it.aspect_scores))
                   IN [i \in 1..Len(has) |-> has[i].aspect_scores.v[k].v]
    IN IF bucket = {} THEN JNull
       ELSE JDict([k \in bucket |-> JNum(_avg(vals(k)))])

_avg_accuracy_zeroed(items_) ==
    JNum(_avg([i \in 1..Len(items_) |->
                 IF items_[i].ai_accuracy.t = "num" THEN items_[i].ai_accuracy.v
                 ELSE RatInt(0)]))

_avg_accuracy(items_) ==
    LET accs == SelectSeq(Field(items_, "ai_accuracy"), LAMBDA a : a.t # "null")
    IN IF Len(accs) > 0 THEN JNum(_avg([i \in 1..Len(accs) |-> accs[i].v])) ELSE JNull

summarize_report(rep) ==
    IF ~IsDict(rep) THEN Raised("AttributeError")
    ELSE LET items_ == report_items(rep)
    IN IF ~Iterable(items_) THEN Raised("TypeError")
    ELSE LET kept == SelectSeq(Elements(items_), Kept)
    IN IF \E i \in 1..Len(kept) : _compute_ai_accuracy(kept[i]).t = "raise"
         THEN Raised("AttributeError")
    ELSE LET item_summaries == [i \in 1..Len(kept) |-> ItemSummary(kept[i])]
             cloze_items_ == SelectSeq(item_summaries, LAMBDA x : x.type = "cloze")
             reading_items_ == SelectSeq(item_summaries, LAMBDA x : x.type = "reading")
         IN [t |-> "dict",
             v |-> [generated_at |-> Get(rep, "generated_at"),
                    model |-> Get(rep, "model"),
                    source_settings |-> GetOr(rep, "settings", EmptyDict),
                    counts |-> [cloze |-> Len(cloze_items_),
                                reading |-> Len(reading_items_),
                                total |-> Len(item_summaries)],
                    overall |->
                      [cloze_avg_score |-> JNum(_avg(Field(cloze_items_, "score"))),
                       reading_avg_score |-> JNum(_avg(Field(reading_items_, "score"))),
                       cloze_avg_aspect_scores |-> _avg_aspects(cloze_items_),
                       reading_avg_aspect_scores |-> _avg_aspects(reading_items_),
                       cloze_avg_ai_accuracy |-> _avg_accuracy(cloze_items_),
                       reading_avg_ai_accuracy |-> _avg_accuracy(reading_items_)],
                    per_passage |-> item_summaries]]

----
\* review_quality.main after the two reviews, and summarize_quality_report.main

Digits == <<"0", "1", "2", "3", "4", "5", "6", "7", "8", "9">>

\* json.dumps then json.loads of one ScoredItem / Totals / Report
ItemJson(e) ==
    JDict([type |-> JStr(e.type),
           path |-> JFmt(<<e.type, Digits[e.source_file + 1], "#", Digits[e.index_in_file + 1]>>),
           source_file |-> JFmt(<<e.type, Digits[e.source_file + 1]>>),
           index_in_file |-> JNum(RatInt(e.index_in_file)),
           id |-> IF e.type = "cloze" THEN JStr(e.name) ELSE JAbsent,
           title |-> IF e.type = "reading" THEN JStr(e.name) ELSE JAbsent,
           score |-> JNum(e.score),
           rule_issues |-> JList([i \in 1..Len(e.rule_issues) |->
                                    JDict([severity |-> JStr(e.rule_issues[i])])]),
           rule_stats |-> JDict([fatal_count |-> JNum(RatInt(e.rule_stats.fatal_count)),
                                 warning_count |-> JNum(RatInt(e.rule_stats.warning_count)),
                                 info_count |-> JNum(RatInt(e.rule_stats.info_count))]),
           llm_judge |-> e.llm_judge])

TotalsJson(t) ==
    JDict([count |-> JNum(RatInt(t.count)),
           fatal |-> JNum(RatInt(t.fatal)),
           warning |-> JNum(RatInt(t.warning)),
           info |-> JNum(RatInt(t.info)),
           avg_score |-> JNum(t.avg_score)])

ReportDoc(model, settings, totals_, items_) ==
    JDict([generated_at |-> JStr("ts"),
           model |-> model,
           settings |-> settings,
           totals |-> totals_,
           items |-> items_])

\* report = {...}; dump_report_json(out_path, report)
assemble_report ==
    /\ pc = "assemble"
    /\ report' = ReportDoc(JAbsent,
                           JDict([llm_enabled |-> JBool(llm)]),
                           JDict([cloze |-> TotalsJson(cloze_totals),
                                  reading |-> TotalsJson(reading_totals)]),
                           LET all == cloze_items \o reading_items
                           IN JList([i \in 1..Len(all) |-> ItemJson(all[i])]))
    /\ pc' = "written"
    /\ exit_code' = 0
    /\ UNCHANGED <<llm, cloze_files, reading_files, fi, items, idx, per_item,
                   totals, scores, cloze_items, cloze_totals, reading_items,
                   reading_totals, loaded, failed, exc, judge_calls, summary>>
    /\ UNCHANGED <<fusion_vars, validation_vars, invoke_vars, batch_vars>>

summarize_main_consuming ==
    /\ pc = "written"
    /\ summary' = summarize_report(report)
    /\ report' = IF IsDict(report)
                 THEN JDict([k \in DOMAIN report.v |->
                               IF k = "items" THEN JAbsent ELSE report.v[k]])
                 ELSE report
    /\ pc' = "summarized"
    /\ UNCHANGED <<review_vars, exit_code, fusion_vars, validation_vars, invoke_vars,
                   batch_vars>>

\* report = _read_json(report_path); summary = summarize_report(report)
summarize_main ==
    /\ pc = "written"
    /\ summary' = summarize_report(report)
    /\ pc' = "summarized"
    /\ UNCHANGED <<llm, cloze_files, reading_files, fi, items, idx, per_item,
                   totals, scores, cloze_items, cloze_totals, reading_items,
                   reading_totals, loaded, failed, exc, judge_calls, report>>
    /\ UNCHANGED <<exit_code, fusion_vars, validation_vars, invoke_vars, batch_vars>>

Next ==
    \/ review_cloze_load
    \/ review_cloze_item
    \/ review_cloze_return
    \/ review_reading_load
    \/ review_reading_item
    \/ review_reading_return
    \/ assemble_report
    \/ summarize_main

Spec == Init /\ [][Next]_vars

----
\* The Summarizer run on any persisted document (summarize_quality_report.main
\* reads whatever file it is given).

SeqsUpTo(S, n) == UNION {[1..k -> S] : k \in 0..n}

MatchValues == {JBool(TRUE), JBool(FALSE), JNull, JAbsent, JNum(RatInt(1))}

Breakdowns ==
    {JAbsent, JNull} \cup {JList([i \in 1..Len(ms) |-> Entry(ms[i])]) :
                              ms \in SeqsUpTo(MatchValues, MaxEntries)}

Predicteds ==
    {JAbsent} \cup {Answers(ty, n) : ty \in {"cloze", "reading"}, n \in 0..MaxPredicted}

Mismatches ==
    {JAbsent} \cup {JList([i \in 1..n |-> JNum(RatInt(i))]) : n \in 0..MaxMismatch}

ItemDoc(type, score, llm_judge) ==
    JDict([type |-> type,
           path |-> JAbsent,
           source_file |-> JStr("a.json"),
           index_in_file |-> JNum(RatInt(0)),
           id |-> JAbsent,
           title |-> JStr("t"),
           score |-> score,
           rule_issues |-> JList(<<>>),
           rule_stats |-> JAbsent,
           llm_judge |-> llm_judge])

\* one item with every shape of judge result
RichItems ==
    {ItemDoc(JStr(ty), JNum(RatInt(60)), JudgeDict(ty, JNull, JNull, bd, pr, mm)) :
        ty \in {"cloze", "reading"}, bd \in Breakdowns, pr \in Predicteds,
        mm \in Mismatches}

Aspects(acc, flu) == JDict([accuracy |-> acc, fluency |-> flu])

\* a few items to build longer reports from
SmallItems ==
    UNION {{ ItemDoc(JStr(ty), JNum(RatInt(60)), JNull),
             ItemDoc(JStr(ty), JNum(RatInt(95)),
                     JudgeDict(ty, JNum(RatInt(90)), Aspects(JNum(RatInt(80)), JNum(RatInt(90))),
                               JList(<<Entry(JBool(TRUE)), Entry(JBool(TRUE)),
                                       Entry(JBool(FALSE))>>), JNull, JNull)),
             ItemDoc(JStr(ty), JStr("60"),
                     JudgeDict(ty, JNull, Aspects(JNum(RatInt(70)), JStr("n/a")),
                               JNull, Answers(ty, 4), JList(<<JNum(RatInt(1))>>))) } :
           ty \in {"cloze", "reading"}}
      \cup {JStr("cloze"), ItemDoc(JStr("essay"), JNum(RatInt(60)), JNull),
            ItemDoc(JNull, JNum(RatInt(60)), JNull)}

Settings == JDict([llm_enabled |-> JBool(TRUE)])

\* documents without a usable `items`
MalformedReports ==
    {ReportDoc(m, Settings, JAbsent, x) :
        m \in {JAbsent, JStr("GPT5.2")},
        x \in {JAbsent, JNull, JStr("cloze"), JNum(RatInt(3)), Settings,
                ItemDoc(JStr("cloze"), JNum(RatInt(60)), JNull)}}
      \cup {JList(<<>>), JNull}

SumReports ==
    MalformedReports
      \cup {ReportDoc(JStr("GPT5.2"), Settings, JAbsent, JList(<<it>>)) : it \in RichItems}
      \cup {ReportDoc(JStr("GPT5.2"), Settings, JAbsent, JList(its)) :
               its \in SeqsUpTo(SmallItems, MaxReportItems)}

InitSum ==
    /\ report \in SumReports
    /\ pc = "written"
    /\ llm = FALSE
    /\ cloze_files = 0
    /\ reading_files = 0
    /\ fi = 0
    /\ items = <<>>
    /\ idx = 0
    /\ per_item = <<>>
    /\ totals = ZeroTotals
    /\ scores = <<>>
    /\ cloze_items = <<>>
    /\ cloze_totals = ZeroTotals
    /\ reading_items = <<>>
    /\ reading_totals = ZeroTotals
    /\ loaded = [cloze |-> <<>>, reading |-> <<>>]
    /\ failed = <<>>
    /\ judge_calls = <<>>
    /\ exc = "none"
    /\ summary = JNull
    /\ exit_code = NotExited
    /\ NoFusion
    /\ NoValidation
    /\ NoBatch
    /\ NoInvoke

NextSum == summarize_main

SpecSum == InitSum /\ [][NextSum]_vars

----
\* summarize_report called a second time with the Report object of the first
\* call: it reads the Report, touches nothing else, and returns a new Summary.
summarize_again ==
    /\ pc = "summarized"
    /\ summary' = summarize_report(report)
    /\ pc' = "resummarized"
    /\ UNCHANGED <<review_vars, report, exit_code, fusion_vars, validation_vars, invoke_vars,
                   batch_vars>>

NextTwice ==
    \/ summarize_main
    \/ summarize_again

SpecTwice == InitSum /\ [][NextTwice]_vars

----
\* Score Fusion on its own: overall_score applied to any Issue list and any
\* judge score, then applied again to the list with one more issue.

MaxIssues == 4      \* issues of one item

Severities == {"Fatal", "Warning", "Info"}

\* the judge scores tried: none, below the range, its ends, inside, above
JudgeScores ==
    {JNull, JNum(RatInt(-50)), JNum(RatInt(0)), JNum(<<111, 2>>), JNum(RatInt(90)),
     JNum(RatInt(100)), JNum(RatInt(250))}

\* no review run is going on
NoReview ==
    /\ llm = FALSE
    /\ cloze_files = 0
    /\ reading_files = 0
    /\ fi = 0
    /\ items = <<>>
    /\ idx = 0
    /\ per_item = <<>>
    /\ totals = ZeroTotals
    /\ scores = <<>>
    /\ cloze_items = <<>>
    /\ cloze_totals = ZeroTotals
    /\ reading_items = <<>>
    /\ reading_totals = ZeroTotals
    /\ loaded = [cloze |-> <<>>, reading |-> <<>>]
    /\ failed = <<>>
    /\ judge_calls = <<>>
    /\ exc = "none"
    /\ report = JNull
    /\ summary = JNull
    /\ exit_code = NotExited

InitFusion ==
    /\ pc = "fusion"
    /\ fusion_issues \in SeqsUpTo(Severities, MaxIssues)
    /\ fusion_llm_score \in JudgeScores
    /\ fusion_score = JNull
    /\ NoReview
    /\ NoValidation
    /\ NoBatch
    /\ NoInvoke

\* score = overall_score(issues, llm_score)
fuse ==
    /\ pc = "fusion"
    /\ fusion_score' = JNum(overall_score(fusion_issues, fusion_llm_score))
    /\ pc' = "fused"
    /\ UNCHANGED <<review_vars, report, summary, exit_code, fusion_issues,
                   fusion_llm_score, validation_vars, invoke_vars, batch_vars>>

\* overall_score for the same judge score and the list with one more issue
fuse_more ==
    /\ pc \in {"fused", "fused_more"}
    /\ Len(fusion_issues) < MaxIssues
    /\ \E sev \in Severities :
          /\ fusion_issues' = Append(fusion_issues, sev)
          /\ fusion_score' = JNum(overall_score(fusion_issues', fusion_llm_score))
    /\ pc' = "fused_more"
    /\ UNCHANGED <<review_vars, report, summary, exit_code, fusion_llm_score,
                   validation_vars, invoke_vars, batch_vars>>

NextFusion ==
    \/ fuse
    \/ fuse_more

SpecFusion == InitFusion /\ [][NextFusion]_vars

----
\* batch_review_quality.py

\* The stems of the paths a directory may hold, as character lists, in the
\* order sorted() puts them (" " < "A" < "_" < "c").
Stems ==
    << <<"A">>, <<"A", " ", "_", "c">>, <<"_", "c">> >>

\* iter_json_files: the paths found, sorted
iter_json_files(found) ==
    SelectSeq([i \in 1..Len(Stems) |-> i], LAMBDA i : i \in found)

RECURSIVE lstrip(_)
lstrip(str) == IF str # <<>> /\ Head(str) = " " THEN lstrip(Tail(str)) ELSE str

RECURSIVE rstrip(_)
rstrip(str) ==
    IF str # <<>> /\ str[Len(str)] = " " THEN rstrip(SubSeq(str, 1, Len(str) - 1))
    ELSE str

strip(str) == rstrip(lstrip(str))

\* stem.split("_", 1)[0]
BeforeUnderscore(stem) ==
    LET at == {i \in 1..Len(stem) : stem[i] = "_"}
    IN SubSeq(stem, 1, (CHOOSE i \in at : \A j \in at : i <= j) - 1)

_infer_model_name(path) ==
    LET stem == Stems[path]
        name == IF \E i \in 1..Len(stem) : stem[i] = "_"
                THEN strip(BeforeUnderscore(stem)) ELSE strip(stem)
    IN IF name # <<>> THEN name ELSE <<"unknown">>

\* the model names there are, in the order sorted() puts them
SortedNames == << <<"A">>, <<"unknown">> >>

\* _group_by_model(files).get(model, [])
_group_by_model(files, model) ==
    SelectSeq(files, LAMBDA p : _infer_model_name(p) = model)

_all_models(cloze, reading) ==
    SelectSeq(SortedNames,
              LAMBDA m : \E i \in 1..Len(cloze \o reading) :
                            _infer_model_name((cloze \o reading)[i]) = m)

Dirs == {iter_json_files(found) : found \in {S \in SUBSET (1..Len(Stems)) :
                                                Cardinality(S) <= MaxFiles}}

\* the locals of review_cloze_files as a call starts
ReviewStart ==
    /\ fi = 0
    /\ items = <<>>
    /\ idx = 0
    /\ per_item = <<>>
    /\ totals = ZeroTotals
    /\ scores = <<>>
    /\ cloze_items = <<>>
    /\ cloze_totals = ZeroTotals
    /\ reading_items = <<>>
    /\ reading_totals = ZeroTotals
    /\ loaded = [cloze |-> <<>>, reading |-> <<>>]
    /\ failed = <<>>
    /\ judge_calls = <<>>
    /\ exc = "none"

InitBatch ==
    /\ llm \in BOOLEAN
    /\ cloze_dir \in Dirs
    /\ reading_dir \in Dirs
    /\ pc = "batch"
    /\ models = <<>>
    /\ mi = 0
    /\ reports = <<>>
    /\ cloze_files = 0
    /\ reading_files = 0
    /\ ReviewStart
    /\ report = JNull
    /\ summary = JNull
    /\ exit_code = NotExited
    /\ NoFusion
    /\ NoValidation
    /\ NoInvoke

\* models = _all_models(...); if not models: return 1
batch_models ==
    /\ pc = "batch"
    /\ models' = _all_models(cloze_dir, reading_dir)
    /\ IF models' = <<>>
       THEN pc' = "returned" /\ exit_code' = 1
       ELSE pc' = "model" /\ UNCHANGED exit_code
    /\ UNCHANGED <<review_vars, report, summary, cloze_dir, reading_dir, mi, reports,
                   fusion_vars, validation_vars, invoke_vars>>

\* for model in models: the two groups are looked up and review_cloze_files
\* is called
batch_review ==
    /\ pc = "model"
    /\ mi < Len(models)
    /\ cloze_files' = Len(_group_by_model(cloze_dir, models[mi + 1]))
    /\ reading_files' = Len(_group_by_model(reading_dir, models[mi + 1]))
    /\ pc' = "cloze"
    /\ fi' = 0
    /\ items' = <<>>
    /\ idx' = 0
    /\ per_item' = <<>>
    /\ totals' = OwnTotals(totals)
    /\ scores' = <<>>
    /\ loaded' = [cloze |-> <<>>, reading |-> <<>>]
    /\ judge_calls' = <<>>
    /\ UNCHANGED <<llm, cloze_items, cloze_totals, reading_items, reading_totals,
                   failed, exc, report, summary, exit_code, batch_vars, fusion_vars,
                   validation_vars, invoke_vars>>

\* report = {...}; dump_report_json(out_path, report)
batch_report ==
    /\ pc = "assemble"
    /\ report' = ReportDoc(JFmt(models[mi + 1]),
                           JDict([llm_enabled |-> JBool(llm)]),
                           JDict([cloze |-> TotalsJson(cloze_totals),
                                  reading |-> TotalsJson(reading_totals)]),
                           LET all == cloze_items \o reading_items
                           IN JList([i \in 1..Len(all) |-> ItemJson(all[i])]))
    /\ reports' = Append(reports, report')
    /\ mi' = mi + 1
    /\ pc' = "model"
    /\ UNCHANGED <<review_vars, summary, exit_code, cloze_dir, reading_dir, models,
                   fusion_vars, validation_vars, invoke_vars>>

\* the loop is over: return 0
batch_return ==
    /\ pc = "model"
    /\ mi = Len(models)
    /\ exit_code' = 0
    /\ pc' = "returned"
    /\ UNCHANGED <<review_vars, report, summary, batch_vars, fusion_vars,
                   validation_vars, invoke_vars>>

NextBatch ==
    \/ batch_models
    \/ batch_review
    \/ review_cloze_load
    \/ review_cloze_item
    \/ review_cloze_return
    \/ review_reading_load
    \/ review_reading_item
    \/ review_reading_return
    \/ batch_report
    \/ batch_return

SpecBatch == InitBatch /\ [][NextBatch]_vars

----
\* src/src/model.py: the validators pydantic runs when a ClozeTest or a
\* ReadingTask is constructed from well-typed data.

MaxBlanks == 3      \* pieces of a ClozeTest content; its option groups and answers
MaxQuestions == 3   \* questions of a ReadingTask

\* A content is a list of pieces: plain text, or "<question_" digits ">" (with
\* no digit the piece is not a marker for the pattern <question_(\d+)>).
Text == [marker |-> FALSE, digits |-> <<>>]

Marker(ds) == [marker |-> TRUE, digits |-> ds]

Pieces ==
    {Text, Marker(<<>>), Marker(<<0, 1>>)} \cup {Marker(<<n>>) : n \in 0..MaxBlanks}

\* re.findall(r'<question_(\d+)>', content): the captured digit strings
findall(content) ==
    LET hits == SelectSeq(content, LAMBDA pc_ : pc_.marker /\ pc_.digits # <<>>)
    IN [i \in 1..Len(hits) |-> hits[i].digits]

\* int() of a digit string
RECURSIVE int(_)
int(ds) == IF ds = <<>> THEN 0 ELSE 10 * int(SubSeq(ds, 1, Len(ds) - 1)) + ds[Len(ds)]

\* list(range(1, n + 1))
range1(n) == [i \in 1..n |-> i]

check_consistency_zero_based(content, options, answers) ==
    LET question_numbers == [i \in 1..Len(findall(content)) |-> int(findall(content)[i])]
        blank_count == Len(question_numbers)
    IN IF ~(blank_count = Len(options) /\ Len(options) = Len(answers)) THEN FALSE
       ELSE question_numbers = [i \in 1..blank_count |-> i - 1]

\* ClozeTest.check_consistency: TRUE when it returns self, FALSE when it raises
check_consistency(content, options, answers) ==
    LET matches == findall(content)
        question_numbers == [i \in 1..Len(matches) |-> int(matches[i])]
        blank_count == Len(question_numbers)
        options_count == Len(options)
        answers_count == Len(answers)
    IN IF ~(blank_count = options_count /\ options_count = answers_count) THEN FALSE
       ELSE IF question_numbers # <<>>
       THEN question_numbers = range1(blank_count)
       ELSE TRUE

RECURSIVE insert(_, _)
insert(x, xs) ==
    IF xs = <<>> THEN <<x>>
    ELSE IF x <= Head(xs) THEN <<x>> \o xs
    ELSE <<Head(xs)>> \o insert(x, Tail(xs))

RECURSIVE sorted(_)
sorted(xs) == IF xs = <<>> THEN <<>> ELSE insert(Head(xs), sorted(Tail(xs)))

check_question_ids_no_empty_check(questions) ==
    LET ids == [i \in 1..Len(questions) |-> questions[i].id]
    IN IF Len(ids) # Cardinality({ids[i] : i \in 1..Len(ids)}) THEN FALSE
       ELSE sorted(ids) = range1(Len(ids))

\* ReadingTask.check_question_ids: TRUE when it returns self, FALSE when it raises
check_question_ids(questions) ==
    IF questions = <<>> THEN FALSE
    ELSE LET ids == [i \in 1..Len(questions) |-> questions[i].id]
         IN IF Len(ids) # Cardinality({ids[i] : i \in 1..Len(ids)}) THEN FALSE
            ELSE sorted(ids) = range1(Len(ids))

\* the data of a ClozeTest of up to n pieces, option groups and answers
ClozeCandidates(n) ==
    {[kind |-> "cloze", content |-> c, options |-> Repeat("group", o),
      answers |-> Repeat("A", a)] :
        c \in SeqsUpTo(Pieces, n), o \in 0..n, a \in 0..n}

\* the data of a ReadingTask of up to n questions
ReadingCandidates(n) ==
    {[kind |-> "reading", questions |-> [i \in 1..Len(ids) |-> [id |-> ids[i]]]] :
        ids \in SeqsUpTo(0..(n + 1), n)}

InitValidate ==
    /\ pc = "validate"
    /\ candidate \in ClozeCandidates(MaxBlanks) \cup ReadingCandidates(MaxQuestions)
    /\ verdict = "none"
    /\ NoReview
    /\ NoFusion
    /\ NoBatch
    /\ NoInvoke

\* ClozeTest(**data)
validate_cloze ==
    /\ pc = "validate"
    /\ candidate.kind = "cloze"
    /\ verdict' = IF check_consistency(candidate.content, candidate.options,
                                       candidate.answers)
                  THEN "accepted" ELSE "rejected"
    /\ pc' = "validated"
    /\ UNCHANGED <<review_vars, report, summary, exit_code, candidate, fusion_vars, invoke_vars,
                   batch_vars>>

\* ReadingTask(**data)
validate_reading ==
    /\ pc = "validate"
    /\ candidate.kind = "reading"
    /\ verdict' = IF check_question_ids(candidate.questions)
                  THEN "accepted" ELSE "rejected"
    /\ pc' = "validated"
    /\ UNCHANGED <<review_vars, report, summary, exit_code, candidate, fusion_vars, invoke_vars,
                   batch_vars>>

NextValidate ==
    \/ validate_cloze
    \/ validate_reading

SpecValidate == InitValidate /\ [][NextValidate]_vars

----
\* src/utils.py: LLMService.invoke

MaxRetries == 2
MaxCalls == 2

\* how one request to the chat model ends: a response, or a ClientError with
\* an error code, or another exception
RequestOutcomes ==
    {"response", "Throttling", "TooManyRequestsException", "ValidationException",
     "Exception"}

\* the codes the handler of ClientError retries
IsThrottling(code) == code = "Throttling" \/ code = "TooManyRequestsException"

\* LLMService.__init__
InitInvoke ==
    /\ pc = "service"
    /\ NoInvoke
    /\ NoReview
    /\ NoFusion
    /\ NoValidation
    /\ NoBatch

\* a caller enters invoke: self.total_calls += 1
invoke_enter ==
    /\ pc \in {"service", "invoke_returned", "invoke_raised"}
    /\ total_calls < MaxCalls
    /\ max_retries' \in 0..MaxRetries
    /\ pydantic_obj' \in BOOLEAN
    /\ at_entry' = [total_calls |-> total_calls, failed_calls |-> failed_calls]
    /\ total_calls' = total_calls + 1
    /\ retry_count' = 0
    /\ attempts' = 0
    /\ requests' = 0
    /\ exc' = "none"
    /\ pc' = "prompt"
    /\ UNCHANGED <<failed_calls, service_retry_count>>
    /\ UNCHANGED <<llm, cloze_files, reading_files, fi, items, idx, per_item, totals,
                   scores, cloze_items, cloze_totals, reading_items, reading_totals,
                   loaded, failed, judge_calls, report, summary, exit_code,
                   fusion_vars, validation_vars, batch_vars>>

\* prompt_tokens += self.llm.get_num_tokens(message["content"]), ahead of the
\* try statement; retry_count = 0
invoke_count_prompt ==
    /\ pc = "prompt"
    /\ \E counted \in BOOLEAN :
          IF counted
          THEN pc' = "attempt" /\ UNCHANGED exc
          ELSE pc' = "invoke_raised" /\ exc' = "TokenCountError"
    /\ UNCHANGED <<invoke_vars, llm, cloze_files, reading_files, fi, items, idx,
                   per_item, totals, scores, cloze_items, cloze_totals,
                   reading_items, reading_totals, loaded, failed, judge_calls,
                   report, summary, exit_code, fusion_vars, validation_vars,
                   batch_vars>>

\* how one pass of the try block ends, and the requests it sent: with a
\* pydantic_obj a structured request that raises anything is followed by the
\* fallback request, whose reply may also fail json.loads or model_validate;
\* get_num_tokens(response_content) may raise after a response
Passes ==
    LET single == {[ends |-> o, sent |-> 1] : o \in RequestOutcomes}
        structured == {[ends |-> o, sent |-> 1] : o \in {"response", "Exception"}}
        fallback == {[ends |-> o, sent |-> 2] : o \in RequestOutcomes}
    IN IF pydantic_obj THEN structured \cup fallback ELSE single

\* one pass of `while True`
invoke_attempt ==
    /\ pc = "attempt"
    /\ attempts' = attempts + 1
    /\ \E pass \in Passes :
          /\ requests' = requests + pass.sent
          /\ IF pass.ends = "response"
             THEN /\ pc' = "invoke_returned"
                  /\ UNCHANGED <<retry_count, service_retry_count, failed_calls, exc>>
             ELSE IF IsThrottling(pass.ends)
             THEN /\ retry_count' = retry_count + 1
                  /\ service_retry_count' = service_retry_count + 1
                  /\ IF retry_count' > max_retries
                     THEN /\ failed_calls' = failed_calls + 1
                          /\ pc' = "invoke_raised"
                          /\ exc' = "MaximumRetriesExceeded"
                     ELSE /\ pc' = "sleep"
                          /\ UNCHANGED <<failed_calls, exc>>
             ELSE /\ failed_calls' = failed_calls + 1
                  /\ pc' = "invoke_raised"
                  /\ exc' = pass.ends
                  /\ UNCHANGED <<retry_count, service_retry_count>>
    /\ UNCHANGED <<max_retries, pydantic_obj, total_calls, at_entry>>
    /\ UNCHANGED <<llm, cloze_files, reading_files, fi, items, idx, per_item, totals,
                   scores, cloze_items, cloze_totals, reading_items, reading_totals,
                   loaded, failed, judge_calls, report, summary, exit_code,
                   fusion_vars, validation_vars, batch_vars>>

\* time.sleep(sleep_time) returns and the loop goes round
invoke_sleep ==
    /\ pc = "sleep"
    /\ pc' = "attempt"
    /\ UNCHANGED <<invoke_vars, review_vars, report, summary, exit_code, fusion_vars,
                   validation_vars, batch_vars>>

NextInvoke ==
    \/ invoke_enter
    \/ invoke_count_prompt
    \/ invoke_attempt
    \/ invoke_sleep

SpecInvoke == InitInvoke /\ [][NextInvoke]_vars

----
\* Properties of the review run (Spec).

AfterCloze == {"reading", "assemble", "written", "summarized"}
AfterReading == {"assemble", "written", "summarized"}

\* the index in the flattened input of item i of file k
Position(files, k, i) == TotalLen(SubSeq(files, 1, k - 1)) + i

HasEntry(list, k, i) ==
    \E n \in 1..Len(list) : list[n].source_file = k /\ list[n].index_in_file = i

\* C1: with judging disabled a review of validated items never raises, and each
\* review returns exactly one ScoredItem per item of its files.
C1_ReviewNeverRaises ==
    ~llm => /\ exc = "none"
            /\ pc \in AfterCloze => Len(cloze_items) = TotalLen(loaded.cloze)
            /\ pc \in AfterReading => Len(reading_items) = TotalLen(loaded.reading)

\* C2: when a judge call raised, every item after the failing one in the file
\* being reviewed has been appended to the output all the same (stated for
\* the reading review, which has no other way to raise).
C2_BatchNotAborted ==
    (exc = "JudgeError" /\ failed[1] = "reading") =>
        \A j \in (failed[3] + 1)..(Len(items) - 1) : HasEntry(per_item, failed[2], j)

\* C3: when a judge call raised, the failing item has a ScoredItem whose score
\* is the rules-only fusion score (stated for the reading review, which has no
\* other way to raise).
C3_RulesOnlyFallback ==
    (exc = "JudgeError" /\ failed[1] = "reading") =>
        \E n \in 1..Len(per_item) :
            /\ per_item[n].source_file = failed[2]
            /\ per_item[n].index_in_file = failed[3]
            /\ per_item[n].score =
                  overall_score(rule_check(items[failed[3] + 1]).issues, JNull)

\* C4: a run that read at least one item does not end without having handed a
\* Report to the writer.
C4_RunProducesReport ==
    (pc = "raised" /\ ItemsLoaded >= 1) => report.t = "dict"

Matches(out, files) ==
    /\ Len(out) = TotalLen(files)
    /\ \A k \in 1..Len(files) : \A i \in 1..Len(files[k]) :
          LET e == out[Position(files, k, i)]
          IN /\ e.source_file = k
             /\ e.index_in_file = i - 1
             /\ e.path = <<k, i - 1>>
             /\ e.name = files[k][i].title
             /\ e.rule_stats.fatal_count = files[k][i].fatal

\* C5: the ScoredItems a review returns are the items of its files, one entry
\* each, files in the given order and items by ascending index_in_file.
C5_InputOrder ==
    /\ pc \in AfterCloze => Matches(cloze_items, loaded.cloze)
    /\ pc \in AfterReading => Matches(reading_items, loaded.reading)

C5_Witness ==
    /\ pc = "assemble"
    /\ Len(loaded.reading) = 2
    /\ Len(loaded.reading[1]) = 2
    /\ Len(loaded.reading[2]) = 1
    /\ loaded.reading[1][1].title # loaded.reading[1][2].title
    /\ Len(reading_items) = 3

RECURSIVE SumStat(_, _)
SumStat(list, f) ==
    IF list = <<>> THEN 0 ELSE Head(list).rule_stats[f] + SumStat(Tail(list), f)

TotalsAgree(t, list) ==
    /\ t.count = Len(list)
    /\ t.fatal = SumStat(list, "fatal_count")
    /\ t.warning = SumStat(list, "warning_count")
    /\ t.info = SumStat(list, "info_count")
    /\ Len(list) > 0 =>
          LET sum == RatSum([n \in 1..Len(list) |-> list[n].score])
          IN t.avg_score[1] * sum[2] * Len(list) = sum[1] * t.avg_score[2]

\* C6: the Totals a review returns agree with the ScoredItems it returns: count
\* is their number, fatal / warning / info are the sums of their rule_stats,
\* avg_score is the mean of their scores.
C6_TotalsAgree ==
    /\ pc \in AfterCloze => TotalsAgree(cloze_totals, cloze_items)
    /\ pc \in AfterReading => TotalsAgree(reading_totals, reading_items)

C6_Witness ==
    /\ pc = "assemble"
    /\ llm
    /\ Len(reading_items) >= 2
    /\ reading_totals.fatal >= 1
    /\ reading_totals.warning >= 1
    /\ reading_items[1].score # reading_items[2].score
    /\ reading_totals.avg_score[2] # 1

\* the number of Report items of a category
InCategory(rep, cat) ==
    Cardinality({n \in 1..Len(Get(rep, "items").v) :
                    Get(Get(rep, "items").v[n], "type") = JStr(cat)})

CategoryAverages(cat) ==
    {Get(Get(Get(report, "totals"), cat), "avg_score")}
        \cup IF pc = "summarized"
             THEN {IF cat = "cloze" THEN summary.v.overall.cloze_avg_score
                   ELSE summary.v.overall.reading_avg_score}
             ELSE {}

C18_ExitCodes ==
    exit_code # NotExited =>
        /\ ItemsLoaded = 0 => exit_code # 0
        /\ (ItemsLoaded > 0 /\ exc = "none") => exit_code = 0

----
\* Properties of the Summarizer (SpecSum).

Summarized == pc = "summarized"

\* C8: for a Report whose `items` is missing or is not a list, summarize_report
\* returns a Summary with counts 0 and an empty per_passage.
C8_MalformedReport ==
    (Summarized /\ IsDict(report) /\ ~IsList(Get(report, "items"))) =>
        /\ summary.t = "dict"
        /\ summary.v.counts = [cloze |-> 0, reading |-> 0, total |-> 0]
        /\ summary.v.per_passage = <<>>

C8_Witness ==
    /\ Summarized
    /\ IsDict(report)
    /\ Get(report, "items").t = "num"
    /\ summary.t = "dict"

\* the Report items the Summary has a per_passage entry for, in order
Passages ==
    IF IsDict(report) /\ IsList(Get(report, "items"))
    THEN SelectSeq(Get(report, "items").v,
                   LAMBDA it : IsDict(it) /\ Get(it, "type") \in {JStr("cloze"), JStr("reading")})
    ELSE <<>>

BreakdownOf(it) ==
    IF ~IsDict(Get(it, "llm_judge")) THEN JNull
    ELSE IF Get(it, "type") = JStr("cloze") THEN Get(Get(it, "llm_judge"), "per_blank")
    ELSE Get(Get(it, "llm_judge"), "per_question")

MismatchOf(it) ==
    IF ~IsDict(Get(it, "llm_judge")) THEN JNull
    ELSE IF Get(it, "type") = JStr("cloze")
    THEN Get(Get(it, "llm_judge"), "answer_mismatch_indices")
    ELSE Get(Get(it, "llm_judge"), "answer_mismatch_ids")

PredictedOf(it) ==
    IF ~IsDict(Get(it, "llm_judge")) THEN JNull
    ELSE Get(Get(it, "llm_judge"), "predicted_answers")

HasBreakdown(it) == IsList(BreakdownOf(it)) /\ Len(BreakdownOf(it).v) > 0

MatchCount(bd) ==
    Cardinality({k \in 1..Len(bd.v) : bd.v[k].v.matches_provided = JBool(TRUE)})

\* C9: an item with a non-empty per_blank / per_question list has AI accuracy
\* (entries whose matches_provided is exactly true) / (entries), whatever
\* predicted_answers and the mismatch list hold.
C9_BreakdownAccuracy ==
    Summarized =>
        \A n \in 1..Len(Passages) :
            HasBreakdown(Passages[n]) =>
                LET bd == BreakdownOf(Passages[n])
                    out == summary.v.per_passage[n]
                IN /\ out.ai_accuracy = JNum(Rat(MatchCount(bd), Len(bd.v)))
                   /\ out.ai_correct = JNum(RatInt(MatchCount(bd)))
                   /\ out.ai_total = JNum(RatInt(Len(bd.v)))

C9_Witness ==
    /\ Summarized
    /\ Len(Passages) = 1
    /\ HasBreakdown(Passages[1])
    /\ BreakdownOf(Passages[1]).v = <<Entry(JBool(TRUE)), Entry(JNum(RatInt(1)))>>
    /\ PredictedOf(Passages[1]) = Answers("cloze", 2)
    /\ MismatchOf(Passages[1]) = JList(<<>>)
    /\ summary.v.per_passage[1].ai_accuracy = JNum(<<1, 2>>)

\* predicted_answers exists: a list (cloze) or a mapping (reading), of any size
PredictedExists(it) ==
    PredictedOf(it).t = (IF Get(it, "type") = JStr("cloze") THEN "list" ELSE "dict")

\* C10 as claimed: an item without a non-empty breakdown whose predicted_answers
\* exists and whose mismatch list is present has a defined AI accuracy equal to
\* (predicted count - mismatch count) / predicted count.
C10_PredictedAccuracyAny ==
    Summarized =>
        \A n \in 1..Len(Passages) :
            LET it == Passages[n]
                acc == summary.v.per_passage[n].ai_accuracy
            IN (~HasBreakdown(it) /\ PredictedExists(it) /\ IsList(MismatchOf(it))) =>
                  /\ acc.t = "num"
                  /\ acc.v[1] * PyLen(PredictedOf(it))
                        = (PyLen(PredictedOf(it)) - Len(MismatchOf(it).v)) * acc.v[2]

\* predicted_answers is a non-empty list (cloze) or a non-empty mapping (reading)
HasPredicted(it) == PredictedExists(it) /\ PyLen(PredictedOf(it)) > 0

\* C10 as amended: an item without a non-empty breakdown whose predicted_answers
\* is a non-empty list (cloze) or mapping (reading) and whose mismatch list is
\* present has AI accuracy (predicted count - mismatch count) / predicted count.
C10_PredictedAccuracy ==
    Summarized =>
        \A n \in 1..Len(Passages) :
            LET it == Passages[n]
                out == summary.v.per_passage[n]
            IN (~HasBreakdown(it) /\ HasPredicted(it) /\ IsList(MismatchOf(it))) =>
                  LET p == PyLen(PredictedOf(it))
                      m == Len(MismatchOf(it).v)
                  IN /\ out.ai_accuracy = JNum(Rat(p - m, p))
                     /\ out.ai_correct = JNum(RatInt(p - m))
                     /\ out.ai_total = JNum(RatInt(p))

C10_Witness ==
    /\ Summarized
    /\ Len(Passages) = 1
    /\ BreakdownOf(Passages[1]) = JList(<<>>)
    /\ PredictedOf(Passages[1]) = Answers("reading", 2)
    /\ Get(Passages[1], "type") = JStr("reading")
    /\ MismatchOf(Passages[1]) = JList(<<>>)
    /\ summary.v.per_passage[1].ai_accuracy = JNum(RatInt(1))

\* C11: an item with no judge result, or whose judge result has neither a
\* non-empty per_blank / per_question list nor predicted_answers together with
\* a mismatch list, has a null AI accuracy (not 0) and a null ai_correct.
C11_UndefinedAccuracy ==
    Summarized =>
        \A n \in 1..Len(Passages) :
            LET it == Passages[n]
                out == summary.v.per_passage[n]
            IN (~HasBreakdown(it)
                  /\ ~(PredictedOf(it).t # "null" /\ IsList(MismatchOf(it)))) =>
                  /\ out.ai_accuracy = JNull
                  /\ out.ai_correct = JNull

C11_Witness ==
    /\ Summarized
    /\ Len(Passages) = 1
    /\ IsDict(Get(Passages[1], "llm_judge"))
    /\ BreakdownOf(Passages[1]) = JList(<<>>)
    /\ PredictedOf(Passages[1]) = Answers("cloze", 2)
    /\ Get(Passages[1], "type") = JStr("cloze")
    /\ MismatchOf(Passages[1]) = JNull
    /\ summary.v.per_passage[1].ai_accuracy = JNull
    /\ summary.v.per_passage[1].ai_total = JNum(RatInt(2))

OfCategory(cat) == SelectSeq(Passages, LAMBDA it : Get(it, "type") = JStr(cat))

AspectsOf(it) ==
    IF IsDict(Get(it, "llm_judge")) THEN Get(Get(it, "llm_judge"), "overall_scores")
    ELSE JNull

\* the item reports aspect k: its overall_scores holds a number for k
ReportsAspect(it, k) ==
    /\ IsDict(AspectsOf(it))
    /\ k \in Keys(AspectsOf(it))
    /\ AspectsOf(it).v[k].t = "num"

AspectNames(cat) ==
    UNION {IF IsDict(AspectsOf(OfCategory(cat)[i])) THEN Keys(AspectsOf(OfCategory(cat)[i]))
           ELSE {} : i \in 1..Len(OfCategory(cat))}

Reporters(cat, k) == SelectSeq(OfCategory(cat), LAMBDA it : ReportsAspect(it, k))

AspectMean(cat, k) ==
    LET rs == Reporters(cat, k)
        sum == RatSum([i \in 1..Len(rs) |-> AspectsOf(rs[i]).v[k].v])
    IN Rat(sum[1], sum[2] * Len(rs))

CategoryAspects(cat) ==
    IF cat = "cloze" THEN summary.v.overall.cloze_avg_aspect_scores
    ELSE summary.v.overall.reading_avg_aspect_scores

\* C12: the Summary's average of an aspect in a category is the sum of the
\* aspect's values over the items of the category that report it, divided by the
\* number of those items; a category where no item reports an aspect gets null.
C12_AspectAverages ==
    (Summarized /\ summary.t = "dict") =>
        \A cat \in {"cloze", "reading"} :
            LET reported == {k \in AspectNames(cat) : Len(Reporters(cat, k)) > 0}
                out == CategoryAspects(cat)
            IN IF reported = {} THEN out = JNull
               ELSE /\ IsDict(out)
                    /\ Keys(out) = reported
                    /\ \A k \in reported : out.v[k] = JNum(AspectMean(cat, k))

C12_Witness ==
    /\ Summarized
    /\ Len(OfCategory("cloze")) = 2
    /\ Len(Reporters("cloze", "accuracy")) = 2
    /\ Len(Reporters("cloze", "fluency")) = 1
    /\ Keys(AspectsOf(OfCategory("cloze")[2])) = {"accuracy", "fluency"}
    /\ CategoryAspects("cloze").v["accuracy"] = JNum(RatInt(75))
    /\ CategoryAspects("cloze").v["fluency"] = JNum(RatInt(90))
    /\ CategoryAspects("reading") = JNull

\* the per-item accuracies of a category that are defined
DefinedAccuracies(cat) ==
    LET ps == SelectSeq(summary.v.per_passage,
                        LAMBDA p : p.type = cat /\ p.ai_accuracy.t = "num")
    IN [i \in 1..Len(ps) |-> ps[i].ai_accuracy.v]

CategoryAccuracy(cat) ==
    IF cat = "cloze" THEN summary.v.overall.cloze_avg_ai_accuracy
    ELSE summary.v.overall.reading_avg_ai_accuracy

\* C13: the Summary's average AI accuracy of a category is the mean of the
\* defined accuracies of its items, and null when none of them is defined.
C13_AccuracyAverage ==
    (Summarized /\ summary.t = "dict") =>
        \A cat \in {"cloze", "reading"} :
            LET accs == DefinedAccuracies(cat)
            IN IF Len(accs) = 0 THEN CategoryAccuracy(cat) = JNull
               ELSE CategoryAccuracy(cat)
                      = JNum(Rat(RatSum(accs)[1], RatSum(accs)[2] * Len(accs)))

C13_Witness ==
    /\ Summarized
    /\ summary.t = "dict"
    /\ summary.v.counts.cloze = 2
    /\ Len(DefinedAccuracies("cloze")) = 1
    /\ CategoryAccuracy("cloze") = JNum(<<2, 3>>)
    /\ summary.v.counts.reading = 0
    /\ CategoryAccuracy("reading") = JNull

----
\* Properties of repeated summarization (SpecTwice).

----
\* Properties of Score Fusion (SpecFusion).

\* C15: the score overall_score returns lies in [0, 100], whatever the numbers
\* of Fatal and Warning issues and whatever the judge score, also outside
\* 0..100 or missing.
C15_ScoreInRange ==
    pc \in {"fused", "fused_more"} =>
        /\ fusion_score.t = "num"
        /\ ~RatLess(fusion_score.v, RatInt(0))
        /\ ~RatLess(RatInt(100), fusion_score.v)

C15_Witness ==
    /\ pc = "fused"
    /\ CountOf(fusion_issues, "Fatal") = 3
    /\ fusion_llm_score = JNum(RatInt(250))
    /\ fusion_score = JNum(RatInt(100))

\* C16: for a fixed judge score (or none), overall_score of an issue list with
\* one more Fatal or Warning issue is never above overall_score of the list.
C16_Monotonic ==
    [][(pc' = "fused_more" /\ fusion_issues'[Len(fusion_issues')] \in {"Fatal", "Warning"})
          => ~RatLess(fusion_score.v, fusion_score'.v)]_vars

C16_Witness ==
    /\ pc = "fused_more"
    /\ fusion_issues = <<"Fatal", "Fatal", "Warning", "Fatal">>
    /\ fusion_llm_score = JNum(RatInt(90))
    /\ fusion_score = JNum(RatInt(45))

----
\* Properties of the batch review run (SpecBatch).

RECURSIVE Flatten(_)
Flatten(files) == IF files = <<>> THEN <<>> ELSE Head(files) \o Flatten(Tail(files))

RECURSIVE SumField(_, _)
SumField(list, f) == IF list = <<>> THEN 0 ELSE Head(list)[f] + SumField(Tail(list), f)

\* the Totals are those of the items of these files and of nothing else
GroupTotals(t, files) ==
    /\ t.count = Len(Flatten(files))
    /\ t.fatal = SumField(Flatten(files), "fatal")
    /\ t.warning = SumField(Flatten(files), "warning")
    /\ t.info = SumField(Flatten(files), "info")

\* the Totals a Report carries for a category count the Report's items of it
ReportTotals(rep) ==
    \A cat \in {"cloze", "reading"} :
        Get(Get(Get(rep, "totals"), cat), "count") = JNum(RatInt(InCategory(rep, cat)))

----
\* Properties of validation (SpecValidate).

\* the <question_k> markers of a content, in text order
MarkersOf(content) == SelectSeq(content, LAMBDA x : x.marker /\ x.digits # <<>>)

\* the digit string ds writes the number n (n < 10): n after any zeros
Writes(ds, n) ==
    /\ ds[Len(ds)] = n
    /\ \A i \in 1..(Len(ds) - 1) : ds[i] = 0

ClozeInvariant(c) ==
    /\ Len(MarkersOf(c.content)) = Len(c.options)
    /\ Len(MarkersOf(c.content)) = Len(c.answers)
    /\ \A i \in 1..Len(MarkersOf(c.content)) : Writes(MarkersOf(c.content)[i].digits, i)

ReadingInvariant(c) ==
    LET n == Len(c.questions)
    IN /\ n >= 1
       /\ \A i, j \in 1..n : i # j => c.questions[i].id # c.questions[j].id
       /\ {c.questions[i].id : i \in 1..n} = 1..n

\* C20: a ReadingTask is accepted only if it has at least one question and its
\* question ids are pairwise distinct and are exactly {1, ..., N}; every other
\* ReadingTask is rejected.
C20_ReadingAccepted ==
    (pc = "validated" /\ candidate.kind = "reading") =>
        /\ verdict = "accepted" => ReadingInvariant(candidate)
        /\ ~ReadingInvariant(candidate) => verdict = "rejected"

C20_Witness ==
    /\ pc = "validated"
    /\ candidate.kind = "reading"
    /\ Len(candidate.questions) = 3
    /\ candidate.questions[1].id = 2
    /\ candidate.questions[2].id = 3
    /\ verdict = "accepted"

----
\* Spec: the order of the steps of a review

\* the ScoredItems appended so far, in the order they were appended
Appended ==
    IF pc \in {"cloze", "reading", "raised"}
    THEN cloze_items \o per_item
    ELSE cloze_items \o reading_items

----
\* SpecInvoke: the retry loop and the counters of LLMService.invoke

InvokeEnded == pc \in {"invoke_returned", "invoke_raised"}

\* at most max_retries + 1 passes; the call gives up on throttling after
\* exactly that many, and any other error ends it in the pass it occurs in
AttemptsBounded ==
    /\ attempts <= max_retries + 1
    /\ exc = "MaximumRetriesExceeded" => attempts = max_retries + 1
    /\ pc = "invoke_raised" /\ exc \in {"ValidationException", "Exception"} =>
            retry_count = attempts - 1

CountsCall == InvokeEnded => total_calls = at_entry.total_calls + 1

CountsFailure ==
    /\ pc = "invoke_returned" => failed_calls = at_entry.failed_calls
    /\ pc = "invoke_raised" => failed_calls = at_entry.failed_calls + 1

\* C22: a call of invoke makes at most max_retries + 1 attempts, raises a
\* non-throttling error in the attempt it occurs in, and when it has ended
\* total_calls is up by exactly 1 and failed_calls by exactly 1 if it raised
\* and by 0 if it returned.
C22_InvokeCounters ==
    /\ AttemptsBounded
    /\ CountsCall
    /\ CountsFailure

----
\* SpecSum: the range of the AI accuracy

\* C23: whenever a per_passage entry has a defined ai_accuracy, ai_correct and
\* ai_total are integers with 0 <= ai_correct <= ai_total and ai_total > 0,
\* and ai_accuracy = ai_correct / ai_total, which lies in [0, 1].
C23_AccuracyInRange ==
    Summarized =>
        \A n \in 1..Len(Passages) :
            LET out == summary.v.per_passage[n]
            IN out.ai_accuracy # JNull =>
                  /\ out.ai_correct.t = "num"
                  /\ out.ai_total.t = "num"
                  /\ out.ai_correct.v[2] = 1
                  /\ out.ai_total.v[2] = 1
                  /\ 0 <= out.ai_correct.v[1]
                  /\ out.ai_correct.v[1] <= out.ai_total.v[1]
                  /\ out.ai_total.v[1] > 0
                  /\ out.ai_accuracy = JNum(Rat(out.ai_correct.v[1], out.ai_total.v[1]))
                  /\ 0 <= out.ai_accuracy.v[1]
                  /\ out.ai_accuracy.v[1] <= out.ai_accuracy.v[2]

----
\* SpecBatch: one Report per model

Elems(list) == {list[i] : i \in 1..Len(list)}

\* the model names inferred from the file names of the two directories
InferredModels == {_infer_model_name(p) : p \in Elems(cloze_dir) \cup Elems(reading_dir)}

NameRank(name) == CHOOSE k \in 1..Len(SortedNames) : SortedNames[k] = name

BatchEnded == pc \in {"returned", "raised"}

\* the run is over with one Report per inferred model, in sorted order
OneReportPerModel ==
    /\ Elems(models) = InferredModels
    /\ \A i, j \in 1..Len(models) : i < j => NameRank(models[i]) < NameRank(models[j])
    /\ Len(reports) = Len(models)
    /\ \A i \in 1..Len(reports) : Get(reports[i], "model") = JFmt(models[i])

\* every file of a directory is in the group of exactly one model
OneGroupPerFile(dir) ==
    \A p \in Elems(dir) :
        Cardinality({i \in 1..Len(models) : p \in Elems(_group_by_model(dir, models[i]))}) = 1

\* the Report of a model with no file in a directory has no item of its category
EmptyCategory(i, dir, cat) ==
    _group_by_model(dir, models[i]) = <<>> =>
        /\ InCategory(reports[i], cat) = 0
        /\ Get(Get(Get(reports[i], "totals"), cat), "count") = JNum(RatInt(0))

\* C24: the batch run ends with exactly one Report per model name inferred
\* from the file names of the two directories, in sorted model order; every
\* file is in exactly one model's group, a Report is written when exactly the
\* files of its model's two groups were loaded, and a model with no file in a
\* directory gets a Report with zero items of that category.
C24_OneReportPerModel ==
    /\ [](BatchEnded =>
            /\ OneReportPerModel
            /\ OneGroupPerFile(cloze_dir)
            /\ OneGroupPerFile(reading_dir)
            /\ \A i \in 1..Len(reports) :
                  /\ EmptyCategory(i, cloze_dir, "cloze")
                  /\ EmptyCategory(i, reading_dir, "reading"))
    /\ [][reports' # reports =>
            /\ Len(loaded.cloze) = Len(_group_by_model(cloze_dir, models[mi + 1]))
            /\ Len(loaded.reading) = Len(_group_by_model(reading_dir, models[mi + 1]))]_vars

====
